---- MODULE Spec2Model ----
(***************************************************************************)
(* pelicanconf.py: the settings of a Pelican site, and the outputs the     *)
(* generator writes from them.  The settings module is read once; every    *)
(* output path and URL is the expansion of one of its templates with       *)
(* str.format (fields {slug} and {date:<strftime>}).                       *)
(*                                                                         *)
(* Python strings that are expanded or compared character by character     *)
(* (templates, slugs, paths) are sequences of one-character strings.       *)
(* Python values carry their type as a tag: [kind |-> ..., val |-> ...].   *)
(***************************************************************************)
EXTENDS Integers, Sequences, FiniteSets

\* ------------------------------------------------------------------------
\* Bounds of the model
\* ------------------------------------------------------------------------
\* Number of outputs written in one generation run.
MaxOutputs == 3

\* Content the generator is run on.
Years == {2019, 2020}
Months == {1, 12}
Days == {5, 28}
Slugs == { <<"a">>, <<"i","n","d","e","x">> }

\* ------------------------------------------------------------------------
\* Python values
\* ------------------------------------------------------------------------
PyStr(s) == [kind |-> "str", val |-> s]
PyInt(n) == [kind |-> "int", val |-> n]
PyFloat(num, den) == [kind |-> "float", val |-> <<num, den>>]
PyNone == [kind |-> "none", val |-> "None"]
PyList(xs) == [kind |-> "list", val |-> xs]
PyDict(d) == [kind |-> "dict", val |-> d]
PyTuple(xs) == [kind |-> "tuple", val |-> xs]
PyBuiltin(name) == [kind |-> "builtin_function_or_method", val |-> name]

\* ------------------------------------------------------------------------
\* The settings, in the order of pelicanconf.py
\* ------------------------------------------------------------------------
\* AUTHOR given as the account name instead of the full name.
AUTHOR_Handle == "eryktr"

AUTHOR == "Eryk Trzeciakiewicz"

PLUGIN_PATHS == <<"pelican-plugins">>

\* PLUGINS with 'sitemap' listed a second time.
PLUGINS_Repeated == <<"sitemap", "neighbors", "assets", "latex", "sitemap">>

PLUGINS == <<"sitemap", "neighbors", "assets", "latex">>

SITENAME == "Let's Research Stuff"

SITESUBTITLE == "Witness the stream of my thoughts being compiled into a text format."

SITEURL == ""

\* SITEMAP with no change frequency for the indexes.
SITEMAP_NoIndexFreq ==
    [ format |-> "xml",
      priorities |-> [ articles |-> PyFloat(5, 10),
                       indexes |-> PyFloat(5, 10),
                       pages |-> PyFloat(5, 10) ],
      changefreqs |-> [ articles |-> "monthly",
                        pages |-> "monthly" ] ]

SITEMAP ==
    [ format |-> "xml",
      priorities |-> [ articles |-> PyFloat(5, 10),
                       indexes |-> PyFloat(5, 10),
                       pages |-> PyFloat(5, 10) ],
      changefreqs |-> [ articles |-> "monthly",
                        indexes |-> "daily",
                        pages |-> "monthly" ] ]

PATH == "content"

TIMEZONE == "Europe/Warsaw"

DEFAULT_LANG == "en"

FEED_ALL_ATOM == PyNone

CATEGORY_FEED_ATOM == PyNone

TRANSLATION_FEED_ATOM == PyNone

AUTHOR_FEED_ATOM == PyNone

AUTHOR_FEED_RSS == PyNone

\* AUTHORS_BIO whose record has no 'bio'.
AUTHORS_BIO_NoBio ==
    [ eryktr |->
        [ name |-> "Eryk Trzeciakiewicz",
          image |-> "assets/images/avatar.webp",
          linkedin |-> "https://www.linkedin.com/in/eryk-trzeciakiewicz-2a86a1182/",
          github |-> "eryktr",
          location |-> "Poland" ] ]

AUTHORS_BIO ==
    [ eryktr |->
        [ name |-> "Eryk Trzeciakiewicz",
          image |-> "assets/images/avatar.webp",
          linkedin |-> "https://www.linkedin.com/in/eryk-trzeciakiewicz-2a86a1182/",
          github |-> "eryktr",
          location |-> "Poland",
          bio |-> "An engineer pushing code code at work and his limits thereafter. Currently chasing latest technologies, learning European languages and practicing calisthenics." ] ]

\* SOCIAL without the trailing comma: the parentheses only group, and the
\* value is the pair itself, a tuple of two strings.
SOCIAL_NoComma == << PyStr("github"), PyStr("https://github.com/eryktr") >>

\* A one-element tuple whose element is a pair.
SOCIAL == << PyTuple(<<PyStr("github"), PyStr("https://github.com/eryktr")>>) >>

COLOR_SCHEME_CSS == "tomorrow.css"

DEFAULT_PAGINATION == 10

THEME == "attila-1.3"

HEADER_COVER == "assets/images/main_cover.webp"

JINJA_ENVIRONMENT ==
    [ extensions |-> <<"jinja2.ext.loopcontrols", "jinja2.ext.i18n", "jinja2.ext.do">> ]

\* ARTICLE_URL = '{date:%Y}/{date:%m}/{slug}.html'
ARTICLE_URL ==
    <<"{","d","a","t","e",":","%","Y","}","/","{","d","a","t","e",":","%","m","}","/","{","s","l","u","g","}",".","h","t","m","l">>

\* ARTICLE_SAVE_AS = '{date:%Y}/{date:%m}/{slug}.html'
ARTICLE_SAVE_AS ==
    <<"{","d","a","t","e",":","%","Y","}","/","{","d","a","t","e",":","%","m","}","/","{","s","l","u","g","}",".","h","t","m","l">>

\* PAGE_URL = 'pages/{slug}/'
PAGE_URL ==
    <<"p","a","g","e","s","/","{","s","l","u","g","}","/">>

\* PAGE_SAVE_AS written as a flat file: 'pages/{slug}.html'.
PAGE_SAVE_AS_Flat ==
    <<"p","a","g","e","s","/","{","s","l","u","g","}",".","h","t","m","l">>

\* PAGE_SAVE_AS = 'pages/{slug}/index.html'
PAGE_SAVE_AS ==
    <<"p","a","g","e","s","/","{","s","l","u","g","}","/","i","n","d","e","x",".","h","t","m","l">>

\* YEAR_ARCHIVE_SAVE_AS = '{date:%Y}/index.html'
YEAR_ARCHIVE_SAVE_AS ==
    <<"{","d","a","t","e",":","%","Y","}","/","i","n","d","e","x",".","h","t","m","l">>

\* MONTH_ARCHIVE_SAVE_AS = '{date:%Y}/{date:%m}/index.html'
MONTH_ARCHIVE_SAVE_AS ==
    <<"{","d","a","t","e",":","%","Y","}","/","{","d","a","t","e",":","%","m","}","/","i","n","d","e","x",".","h","t","m","l">>

\* CATEGORY_URL with a field the generator does not pass: 'category/{name}'.
CATEGORY_URL_BadField ==
    <<"c","a","t","e","g","o","r","y","/","{","n","a","m","e","}">>

\* CATEGORY_URL = 'category/{slug}'
CATEGORY_URL ==
    <<"c","a","t","e","g","o","r","y","/","{","s","l","u","g","}">>

\* CATEGORY_SAVE_AS = 'category/{slug}/index.html'
CATEGORY_SAVE_AS ==
    <<"c","a","t","e","g","o","r","y","/","{","s","l","u","g","}","/","i","n","d","e","x",".","h","t","m","l">>

\* CATEGORIES_SAVE_AS = 'catgegories.html'
CATEGORIES_SAVE_AS ==
    <<"c","a","t","g","e","g","o","r","i","e","s",".","h","t","m","l">>

\* TAG_URL = 'tag/{slug}'
TAG_URL ==
    <<"t","a","g","/","{","s","l","u","g","}">>

\* TAG_SAVE_AS = 'tag/{slug}/index.html'
TAG_SAVE_AS ==
    <<"t","a","g","/","{","s","l","u","g","}","/","i","n","d","e","x",".","h","t","m","l">>

\* TAGS_SAVE_AS = 'tags.html'
TAGS_SAVE_AS ==
    <<"t","a","g","s",".","h","t","m","l">>

\* AUTHOR_URL = 'author/{slug}'
AUTHOR_URL ==
    <<"a","u","t","h","o","r","/","{","s","l","u","g","}">>

\* AUTHOR_SAVE_AS = 'author/{slug}/index.html'
AUTHOR_SAVE_AS ==
    <<"a","u","t","h","o","r","/","{","s","l","u","g","}","/","i","n","d","e","x",".","h","t","m","l">>

\* AUTHORS_SAVE_AS = 'authors.html'
AUTHORS_SAVE_AS ==
    <<"a","u","t","h","o","r","s",".","h","t","m","l">>

STATIC_PATHS == <<"assets">>

JINJA_FILTERS == [ max |-> PyBuiltin("max") ]

\* The module namespace the generator reads: every name bound at the top
\* level of pelicanconf.py, with the Python type of the value bound to it.
pelicanconf ==
    [ AUTHOR |-> PyStr(AUTHOR),
      PLUGIN_PATHS |-> PyList(PLUGIN_PATHS),
      PLUGINS |-> PyList(PLUGINS),
      SITENAME |-> PyStr(SITENAME),
      SITESUBTITLE |-> PyStr(SITESUBTITLE),
      SITEURL |-> PyStr(SITEURL),
      SITEMAP |-> PyDict(SITEMAP),
      PATH |-> PyStr(PATH),
      TIMEZONE |-> PyStr(TIMEZONE),
      DEFAULT_LANG |-> PyStr(DEFAULT_LANG),
      FEED_ALL_ATOM |-> FEED_ALL_ATOM,
      CATEGORY_FEED_ATOM |-> CATEGORY_FEED_ATOM,
      TRANSLATION_FEED_ATOM |-> TRANSLATION_FEED_ATOM,
      AUTHOR_FEED_ATOM |-> AUTHOR_FEED_ATOM,
      AUTHOR_FEED_RSS |-> AUTHOR_FEED_RSS,
      AUTHORS_BIO |-> PyDict(AUTHORS_BIO),
      SOCIAL |-> PyTuple(SOCIAL),
      COLOR_SCHEME_CSS |-> PyStr(COLOR_SCHEME_CSS),
      DEFAULT_PAGINATION |-> PyInt(DEFAULT_PAGINATION),
      THEME |-> PyStr(THEME),
      HEADER_COVER |-> PyStr(HEADER_COVER),
      JINJA_ENVIRONMENT |-> PyDict(JINJA_ENVIRONMENT),
      ARTICLE_URL |-> PyStr(ARTICLE_URL),
      ARTICLE_SAVE_AS |-> PyStr(ARTICLE_SAVE_AS),
      PAGE_URL |-> PyStr(PAGE_URL),
      PAGE_SAVE_AS |-> PyStr(PAGE_SAVE_AS),
      YEAR_ARCHIVE_SAVE_AS |-> PyStr(YEAR_ARCHIVE_SAVE_AS),
      MONTH_ARCHIVE_SAVE_AS |-> PyStr(MONTH_ARCHIVE_SAVE_AS),
      CATEGORY_URL |-> PyStr(CATEGORY_URL),
      CATEGORY_SAVE_AS |-> PyStr(CATEGORY_SAVE_AS),
      CATEGORIES_SAVE_AS |-> PyStr(CATEGORIES_SAVE_AS),
      TAG_URL |-> PyStr(TAG_URL),
      TAG_SAVE_AS |-> PyStr(TAG_SAVE_AS),
      TAGS_SAVE_AS |-> PyStr(TAGS_SAVE_AS),
      AUTHOR_URL |-> PyStr(AUTHOR_URL),
      AUTHOR_SAVE_AS |-> PyStr(AUTHOR_SAVE_AS),
      AUTHORS_SAVE_AS |-> PyStr(AUTHORS_SAVE_AS),
      STATIC_PATHS |-> PyList(STATIC_PATHS),
      JINJA_FILTERS |-> PyDict(JINJA_FILTERS) ]

\* ------------------------------------------------------------------------
\* Template expansion: str.format and datetime.__format__
\* ------------------------------------------------------------------------
\* What an expansion yields when str.format raises (ValueError, KeyError).
FormatError == <<"<error>">>

Digit(d) == <<"0","1","2","3","4","5","6","7","8","9">>[d + 1]

\* n in decimal, zero-padded to at least w digits.
RECURSIVE Digits(_, _)
Digits(n, w) ==
    IF n < 10 /\ w <= 1 THEN <<Digit(n)>>
    ELSE Append(Digits(n \div 10, w - 1), Digit(n % 10))

\* str(date) of a datetime at midnight: 'YYYY-MM-DD 00:00:00'.
DateStr(date) ==
    Digits(date.year, 4) \o <<"-">> \o Digits(date.month, 2) \o <<"-">>
        \o Digits(date.day, 2) \o <<" ","0","0",":","0","0",":","0","0">>

\* date.strftime(spec) from position i: %Y, %m, %d and %% are replaced,
\* every other character is copied.
RECURSIVE StrftimeFrom(_, _, _)
StrftimeFrom(spec, i, date) ==
    IF i > Len(spec) THEN <<>>
    ELSE IF spec[i] = "%" /\ i < Len(spec) /\ spec[i + 1] \in {"Y", "m", "d", "%"}
    THEN (CASE spec[i + 1] = "Y" -> Digits(date.year, 4)
            [] spec[i + 1] = "m" -> Digits(date.month, 2)
            [] spec[i + 1] = "d" -> Digits(date.day, 2)
            [] spec[i + 1] = "%" -> <<"%">>)
         \o StrftimeFrom(spec, i + 2, date)
    ELSE <<spec[i]>> \o StrftimeFrom(spec, i + 1, date)

\* format(date, spec): str(date) for the empty spec, strftime otherwise.
Strftime(spec, date) ==
    IF spec = <<>> THEN DateStr(date) ELSE StrftimeFrom(spec, 1, date)

\* Position of the first occurrence of c in s at or after i; 0 if none.
RECURSIVE Find(_, _, _)
Find(s, c, i) ==
    IF i > Len(s) THEN 0
    ELSE IF s[i] = c THEN i
    ELSE Find(s, c, i + 1)

\* The name of a replacement field: the text before its first ':'.
FieldName(field) ==
    LET k == Find(field, ":", 1)
    IN  IF k = 0 THEN field ELSE SubSeq(field, 1, k - 1)

\* The format spec of a replacement field: the text after its first ':'.
FieldSpec(field) ==
    LET k == Find(field, ":", 1)
    IN  IF k = 0 THEN <<>> ELSE SubSeq(field, k + 1, Len(field))

\* The value a replacement field expands to, given the keyword arguments
\* slug and date.
FieldValue(field, date, slug) ==
    IF FieldName(field) = <<"s","l","u","g">> /\ FieldSpec(field) = <<>>
    THEN slug
    ELSE IF FieldName(field) = <<"d","a","t","e">>
    THEN Strftime(FieldSpec(field), date)
    ELSE FormatError

Cat(a, b) == IF a = FormatError \/ b = FormatError THEN FormatError ELSE a \o b

\* template.format(date=date, slug=slug) from position i.  '{{' and '}}'
\* are literal braces; a '{' without its '}' and a single '}' raise.
RECURSIVE FormatFrom(_, _, _, _)
FormatFrom(t, i, date, slug) ==
    IF i > Len(t) THEN <<>>
    ELSE IF t[i] = "{" /\ i < Len(t) /\ t[i + 1] = "{"
    THEN Cat(<<"{">>, FormatFrom(t, i + 2, date, slug))
    ELSE IF t[i] = "}" /\ i < Len(t) /\ t[i + 1] = "}"
    THEN Cat(<<"}">>, FormatFrom(t, i + 2, date, slug))
    ELSE IF t[i] = "{"
    THEN LET j == Find(t, "}", i + 1)
         IN  IF j = 0 \/ Find(SubSeq(t, i + 1, j - 1), "{", 1) # 0
             THEN FormatError
             ELSE Cat(FieldValue(SubSeq(t, i + 1, j - 1), date, slug),
                      FormatFrom(t, j + 1, date, slug))
    ELSE IF t[i] = "}" THEN FormatError
    ELSE Cat(<<t[i]>>, FormatFrom(t, i + 1, date, slug))

Format(template, date, slug) == FormatFrom(template, 1, date, slug)

\* ------------------------------------------------------------------------
\* The generation run
\* ------------------------------------------------------------------------
VARIABLES
    loaded,     \* the settings module has been read
    settings,   \* the settings in force: name -> tagged value
    written     \* the outputs written so far

vars == <<loaded, settings, written>>

Dates == { [year |-> y, month |-> m, day |-> d] : y \in Years, m \in Months, d \in Days }

\* Fillers for the parts an output does not have.
NoDate == [year |-> 0, month |-> 0, day |-> 0]
NoSlug == <<>>
NoUrl == <<>>

Output(kind, date, slug, url, save_as) ==
    [kind |-> kind, date |-> date, slug |-> slug, url |-> url, save_as |-> save_as]

\* An output can be written once the settings are read, when its
\* expansion did not raise and it is not written yet.
Writable(o) ==
    /\ loaded
    /\ Cardinality(written) < MaxOutputs
    /\ o.url # FormatError
    /\ o.save_as # FormatError
    /\ o \notin written

Init ==
    /\ loaded = FALSE
    /\ settings = << >>
    /\ written = {}

\* The generator reads pelicanconf.py, once.
LoadSettings ==
    /\ ~loaded
    /\ loaded' = TRUE
    /\ settings' = pelicanconf
    /\ UNCHANGED written

WriteArticle ==
    \E date \in Dates, slug \in Slugs :
        LET o == Output("article", date, slug,
                        Format(settings.ARTICLE_URL.val, date, slug),
                        Format(settings.ARTICLE_SAVE_AS.val, date, slug))
        IN  /\ Writable(o)
            /\ written' = written \cup {o}
            /\ UNCHANGED <<loaded, settings>>

WritePage ==
    \E slug \in Slugs :
        LET o == Output("page", NoDate, slug,
                        Format(settings.PAGE_URL.val, NoDate, slug),
                        Format(settings.PAGE_SAVE_AS.val, NoDate, slug))
        IN  /\ Writable(o)
            /\ written' = written \cup {o}
            /\ UNCHANGED <<loaded, settings>>

\* One archive per year.
WriteYearArchive ==
    \E y \in Years :
        LET date == [year |-> y, month |-> 1, day |-> 1]
            o == Output("year_archive", date, NoSlug, NoUrl,
                        Format(settings.YEAR_ARCHIVE_SAVE_AS.val, date, NoSlug))
        IN  /\ Writable(o)
            /\ written' = written \cup {o}
            /\ UNCHANGED <<loaded, settings>>

\* One archive per month of a year.
WriteMonthArchive ==
    \E y \in Years, m \in Months :
        LET date == [year |-> y, month |-> m, day |-> 1]
            o == Output("month_archive", date, NoSlug, NoUrl,
                        Format(settings.MONTH_ARCHIVE_SAVE_AS.val, date, NoSlug))
        IN  /\ Writable(o)
            /\ written' = written \cup {o}
            /\ UNCHANGED <<loaded, settings>>

WriteCategory ==
    \E slug \in Slugs :
        LET o == Output("category", NoDate, slug,
                        Format(settings.CATEGORY_URL.val, NoDate, slug),
                        Format(settings.CATEGORY_SAVE_AS.val, NoDate, slug))
        IN  /\ Writable(o)
            /\ written' = written \cup {o}
            /\ UNCHANGED <<loaded, settings>>

WriteCategories ==
    LET o == Output("categories", NoDate, NoSlug, NoUrl,
                    Format(settings.CATEGORIES_SAVE_AS.val, NoDate, NoSlug))
    IN  /\ Writable(o)
        /\ written' = written \cup {o}
        /\ UNCHANGED <<loaded, settings>>

WriteTag ==
    \E slug \in Slugs :
        LET o == Output("tag", NoDate, slug,
                        Format(settings.TAG_URL.val, NoDate, slug),
                        Format(settings.TAG_SAVE_AS.val, NoDate, slug))
        IN  /\ Writable(o)
            /\ written' = written \cup {o}
            /\ UNCHANGED <<loaded, settings>>

WriteTags ==
    LET o == Output("tags", NoDate, NoSlug, NoUrl,
                    Format(settings.TAGS_SAVE_AS.val, NoDate, NoSlug))
    IN  /\ Writable(o)
        /\ written' = written \cup {o}
        /\ UNCHANGED <<loaded, settings>>

WriteAuthor ==
    \E slug \in Slugs :
        LET o == Output("author", NoDate, slug,
                        Format(settings.AUTHOR_URL.val, NoDate, slug),
                        Format(settings.AUTHOR_SAVE_AS.val, NoDate, slug))
        IN  /\ Writable(o)
            /\ written' = written \cup {o}
            /\ UNCHANGED <<loaded, settings>>

WriteAuthors ==
    LET o == Output("authors", NoDate, NoSlug, NoUrl,
                    Format(settings.AUTHORS_SAVE_AS.val, NoDate, NoSlug))
    IN  /\ Writable(o)
        /\ written' = written \cup {o}
        /\ UNCHANGED <<loaded, settings>>

Next ==
    \/ LoadSettings
    \/ WriteArticle
    \/ WritePage
    \/ WriteYearArchive
    \/ WriteMonthArchive
    \/ WriteCategory
    \/ WriteCategories
    \/ WriteTag
    \/ WriteTags
    \/ WriteAuthor
    \/ WriteAuthors

Spec == Init /\ [][Next]_vars

\* ------------------------------------------------------------------------
\* Properties
\* ------------------------------------------------------------------------
\* The settings that hold a URL or output-path template.
URLTemplateSettings ==
    { "ARTICLE_URL", "ARTICLE_SAVE_AS", "PAGE_URL", "PAGE_SAVE_AS",
      "YEAR_ARCHIVE_SAVE_AS", "MONTH_ARCHIVE_SAVE_AS",
      "CATEGORY_URL", "CATEGORY_SAVE_AS", "CATEGORIES_SAVE_AS",
      "TAG_URL", "TAG_SAVE_AS", "TAGS_SAVE_AS",
      "AUTHOR_URL", "AUTHOR_SAVE_AS", "AUTHORS_SAVE_AS" }

\* Braces of s from position i on are balanced, given that depth braces
\* are open at i; a field does not nest.
RECURSIVE BalancedFrom(_, _, _)
BalancedFrom(s, i, depth) ==
    IF i > Len(s) THEN depth = 0
    ELSE IF s[i] = "{" THEN depth = 0 /\ BalancedFrom(s, i + 1, 1)
    ELSE IF s[i] = "}" THEN depth = 1 /\ BalancedFrom(s, i + 1, 0)
    ELSE BalancedFrom(s, i + 1, depth)

Balanced(s) == BalancedFrom(s, 1, 0)

\* The '{...}' fields of s: the text between each '{' and the next '}'.
Fields(s) ==
    { SubSeq(s, i + 1, Find(s, "}", i) - 1) :
        i \in { n \in 1..Len(s) : s[n] = "{" /\ Find(s, "}", n) # 0 } }

\* The conversion letters of strftime.
StrftimeDirectives ==
    { "a", "A", "b", "B", "c", "d", "H", "I", "j", "m", "M", "p", "S",
      "U", "w", "W", "x", "X", "y", "Y", "Z", "%" }

\* spec is a strftime format: not empty, and each '%' in it starts a
\* conversion.
RECURSIVE DirectivesFrom(_, _)
DirectivesFrom(spec, i) ==
    IF i > Len(spec) THEN TRUE
    ELSE IF spec[i] = "%"
    THEN i < Len(spec) /\ spec[i + 1] \in StrftimeDirectives
            /\ DirectivesFrom(spec, i + 2)
    ELSE DirectivesFrom(spec, i + 1)

IsStrftimeFormat(spec) == spec # <<>> /\ DirectivesFrom(spec, 1)

RecognizedField(f) ==
    \/ f = <<"s","l","u","g">>
    \/ /\ Find(f, ":", 1) # 0
       /\ FieldName(f) = <<"d","a","t","e">>
       /\ IsStrftimeFormat(FieldSpec(f))

\* C1: once the settings are read, every URL-template setting is a string
\* whose braces are balanced and whose every {...} field is {slug} or a
\* {date:<strftime format>} field.
C1_TemplatesUseRecognizedFields ==
    loaded =>
        \A k \in URLTemplateSettings :
            /\ k \in DOMAIN settings
            /\ settings[k].kind = "str"
            /\ Balanced(settings[k].val)
            /\ \A f \in Fields(settings[k].val) : RecognizedField(f)

\* The settings are read and a template with both kinds of field has been
\* expanded into a written article.
C1_Witness ==
    /\ loaded
    /\ Fields(settings.ARTICLE_SAVE_AS.val) =
          { <<"s","l","u","g">>, <<"d","a","t","e",":","%","Y">>,
            <<"d","a","t","e",":","%","m">> }
    /\ \E o \in written : o.kind = "article"

\* C2: once the settings are read, no two positions of PLUGINS hold the
\* same plugin.
C2_PluginsDistinct ==
    loaded =>
        \A i, j \in DOMAIN settings.PLUGINS.val :
            i # j => settings.PLUGINS.val[i] # settings.PLUGINS.val[j]

\* The settings are read and PLUGINS has several entries to compare.
C2_Witness == loaded /\ Len(settings.PLUGINS.val) >= 2

\* C3: once the settings are read, every record of AUTHORS_BIO has a
\* 'name' and a 'bio' field, neither of them the empty string.
C3_AuthorRecordsComplete ==
    loaded =>
        \A k \in DOMAIN settings.AUTHORS_BIO.val :
            LET bio == settings.AUTHORS_BIO.val[k]
            IN  /\ {"name", "bio"} \subseteq DOMAIN bio
                /\ bio.name # ""
                /\ bio.bio # ""

\* The settings are read and AUTHORS_BIO holds a record.
C3_Witness == loaded /\ "eryktr" \in DOMAIN settings.AUTHORS_BIO.val

\* A tuple all of whose elements are tuples of two elements.
IsTupleOfPairs(v) ==
    /\ v.kind = "tuple"
    /\ \A i \in DOMAIN v.val : v.val[i].kind = "tuple" /\ Len(v.val[i].val) = 2

\* C4, as the specification states it: every setting's value is a string,
\* a mapping or a tuple of pairs.
C4_ValuesAreStrMappingOrPairs ==
    loaded =>
        \A k \in DOMAIN settings :
            \/ settings[k].kind \in {"str", "dict"}
            \/ IsTupleOfPairs(settings[k])

\* C4, amended: every setting's value is a string, an integer, None, a
\* list, a mapping or a tuple of pairs.
C4_ValuesHaveKnownShape ==
    loaded =>
        \A k \in DOMAIN settings :
            \/ settings[k].kind \in {"str", "int", "none", "list", "dict"}
            \/ IsTupleOfPairs(settings[k])

\* The settings are read and hold a value of each of the six shapes.
C4_Witness ==
    /\ loaded
    /\ { settings[k].kind : k \in DOMAIN settings } =
          {"str", "int", "none", "list", "dict", "tuple"}

\* C5: once the settings are read, SITEMAP's priorities and changefreqs
\* have the same keys, which are articles, indexes and pages.
C5_SitemapKeysAgree ==
    loaded =>
        /\ DOMAIN settings.SITEMAP.val.priorities =
              DOMAIN settings.SITEMAP.val.changefreqs
        /\ DOMAIN settings.SITEMAP.val.priorities =
              {"articles", "indexes", "pages"}

\* The settings are read and SITEMAP declares both mappings.
C5_Witness ==
    /\ loaded
    /\ {"priorities", "changefreqs"} \subseteq DOMAIN settings.SITEMAP.val

\* Two outputs are different items: they differ in kind, slug or date.
Differ(a, b) == a.kind # b.kind \/ a.slug # b.slug \/ a.date # b.date

\* C6: no two different outputs are written to the same path.
C6_NoSharedPath ==
    \A a, b \in written : Differ(a, b) => a.save_as # b.save_as

\* s without its trailing '/', if it has one.
StripSlash(s) ==
    IF s # <<>> /\ s[Len(s)] = "/" THEN SubSeq(s, 1, Len(s) - 1) ELSE s

IndexHtml == <<"/","i","n","d","e","x",".","h","t","m","l">>

\* save_as is url itself, or url (less a trailing '/') plus '/index.html'.
Addresses(url, save_as) ==
    save_as = url \/ save_as = StripSlash(url) \o IndexHtml

\* The kinds of content that have both a URL and a SAVE_AS template.
UrlKinds == {"ARTICLE", "PAGE", "CATEGORY", "TAG", "AUTHOR"}

UrlOutputKinds == {"article", "page", "category", "tag", "author"}

UrlSetting(kind) ==
    CASE kind = "ARTICLE" -> settings.ARTICLE_URL.val
      [] kind = "PAGE" -> settings.PAGE_URL.val
      [] kind = "CATEGORY" -> settings.CATEGORY_URL.val
      [] kind = "TAG" -> settings.TAG_URL.val
      [] kind = "AUTHOR" -> settings.AUTHOR_URL.val

SaveAsSetting(kind) ==
    CASE kind = "ARTICLE" -> settings.ARTICLE_SAVE_AS.val
      [] kind = "PAGE" -> settings.PAGE_SAVE_AS.val
      [] kind = "CATEGORY" -> settings.CATEGORY_SAVE_AS.val
      [] kind = "TAG" -> settings.TAG_SAVE_AS.val
      [] kind = "AUTHOR" -> settings.AUTHOR_SAVE_AS.val

\* C7: for articles, pages, categories, tags and authors, the SAVE_AS
\* template is the URL template or the URL template plus '/index.html',
\* and so is the path of every written output with respect to its URL.
C7_UrlAddressesFile ==
    loaded =>
        /\ \A kind \in UrlKinds : Addresses(UrlSetting(kind), SaveAsSetting(kind))
        /\ \A o \in written :
              o.kind \in UrlOutputKinds => Addresses(o.url, o.save_as)

\* An output whose path is its URL and one whose path adds '/index.html'
\* to a URL ending in '/' have both been written.
C7_Witness ==
    /\ \E o \in written : o.kind = "article" /\ o.save_as = o.url
    /\ \E o \in written :
          /\ o.kind = "page"
          /\ o.url[Len(o.url)] = "/"
          /\ o.save_as # o.url

\* C8: once the settings are read, some record of AUTHORS_BIO carries the
\* name of the default AUTHOR.
C8_AuthorHasRecord ==
    loaded =>
        \E k \in DOMAIN settings.AUTHORS_BIO.val :
            settings.AUTHORS_BIO.val[k].name = settings.AUTHOR.val

\* The settings are read, with a default AUTHOR, and an author page has
\* been written.
C8_Witness ==
    /\ loaded
    /\ settings.AUTHOR.val # ""
    /\ \E o \in written : o.kind = "author"
====
